---- MODULE Spec2Model ----
(***************************************************************************)
(* Model of the realtime voice session of FocusTask (src/types.ts, the     *)
(* App component): connectVoice / disconnectVoice / toggleVoice, the       *)
(* session callbacks onopen / onmessage / onclose / onerror, the capture   *)
(* callback onaudioprocess and the playback bookkeeping kept in            *)
(* nextStartTimeRef and audioSourcesRef.                                   *)
(*                                                                         *)
(* Time is counted in ticks of 0.1 s.  Every output AudioContext has its   *)
(* own currentTime, which starts at 0 when the context is created and      *)
(* advances with wall-clock time.                                          *)
(***************************************************************************)
EXTENDS Integers, Sequences, FiniteSets, TLC

\* ---------------------------------------------------------------- bounds
\* lifecycle specification (Spec): every key configuration, overlapping
\* connectVoice invocations, few messages
LifeSessions ==
  2

LifeMsgs ==
  1

LifeClock ==
  1

LifeChunks ==
  1

\* playback specification (SpecPlay): one stored key, one connectVoice
\* invocation, no capture, several audio messages
PlayMsgs ==
  2

PlayClock ==
  2

\* longest decoded fragment, in ticks
MaxDur ==
  2

\* capture specification (SpecCapture): a stored key, no inbound messages,
\* this many captured chunks per session
CapChunks ==
  2

\* tool-bridge specification (SpecBridge): one session, no audio, this many
\* tool-call entries in all, in batches of any length
MaxCalls ==
  2

Max(a, b) ==
  IF a >= b THEN a ELSE b

MaxSessions ==
  Max(LifeSessions, 1)

MaxMsgs ==
  Max(LifeMsgs, PlayMsgs)

Sessions ==
  1..MaxSessions

MsgIds ==
  1..MaxMsgs

\* payload 0 stands for a non-empty payload that does not decode
Payloads ==
  0..MaxDur

VARIABLES
  aistudio,          \* window.aistudio is present
  envKey,            \* process.env.API_KEY
  storedKey,         \* localStorage 'gemini_api_key'
  customApiKey,      \* React state customApiKey
  isVoiceActive,
  isVoiceConnecting,
  voiceError,
  isBotSpeaking,
  audioContextRef,   \* 0 = null, else the session whose output context it is
  inputContextRef,   \* 0 = null, else the session whose input context it is
  liveSessionRef,    \* 0 = null, else the session whose promise it holds
  nextStartTimeRef,
  audioSourcesRef,   \* set of message ids whose source node is in the set
  nsess,             \* number of connectVoice invocations so far
  pc,                \* position of each connectVoice invocation / session
  apiKey,            \* the local apiKey of each invocation
  stream,            \* microphone MediaStream of each invocation
  inputCtx,          \* input AudioContext of each invocation
  outputCtx,         \* output AudioContext of each invocation
  ctxStart,          \* wall-clock tick at which the output context was made
  processor,         \* onaudioprocess wired by onopen
  now,               \* wall clock
  nmsg,              \* number of audio messages received so far
  frag,              \* per audio message: the onmessage invocation's state
  prev,              \* the fragment source.start was last called for
  stopped,           \* sources on which stop() was called, 'ended' pending
  cut,               \* an interruption was handled since the last start
  bumped,            \* cursor was raised to the clock since the last start
  flushed,           \* decodes that were pending when an interruption ran
  torn,              \* per session: the stage disconnectVoice found it in
  sent,              \* chunks handed to sendRealtimeInput, per session
  limit,             \* how many invocations, messages and ticks a run has
  prompted,          \* invocations in which handleSetKey called prompt()
  tasks,             \* React state tasks, every queued updater applied
  tasksRef,          \* tasksRef.current: tasks as of the last render
  nextId,            \* generateId: the next fresh task id
  calls,             \* tool-call entries received, in arrival order
  toolOut,           \* tool responses handed to sendToolResponse, in order
  rtOut,             \* per session: chunks handed to sendRealtimeInput
  acked              \* per session: how many of them the network has sent

vars ==
  <<aistudio, envKey, storedKey, customApiKey, isVoiceActive,
    isVoiceConnecting, voiceError, isBotSpeaking, audioContextRef,
    inputContextRef, liveSessionRef, nextStartTimeRef, audioSourcesRef,
    nsess, pc, apiKey, stream, inputCtx, outputCtx, ctxStart, processor,
    now, nmsg, frag, prev, stopped, cut, bumped, torn, sent, limit,
    prompted, tasks, tasksRef, nextId, calls, toolOut, rtOut, acked,
    flushed>>

keyVars ==
  <<aistudio, envKey, storedKey, customApiKey, limit>>

resVars ==
  <<stream, inputCtx, outputCtx, ctxStart, processor, sent>>

playVars ==
  <<nextStartTimeRef, audioSourcesRef, nmsg, frag, prev, stopped, cut,
    bumped, flushed>>

\* the messages whose decode is pending, other than m; they are recorded
\* only in the runs that follow pending decodes across interruptions
Pending(m) ==
  IF limit.flush THEN {k \in MsgIds \ {m} : frag[k].st = "decoding"}
  ELSE {}

bridgeVars ==
  <<tasks, tasksRef, nextId, calls, toolOut>>

sendVars ==
  <<rtOut, acked>>

NoFrag ==
  [st |-> "none", pay |-> 0, intr |-> FALSE, sess |-> 0, ctx |-> 0,
   start |-> 0, playAt |-> 0]

NoPrev ==
  [id |-> 0, start |-> 0, dur |-> 0]

\* sessions that are connecting or whose remote connection is open
Live ==
  {s \in Sessions : pc[s] \in {"mic", "handshake", "open"}}

\* ctx.currentTime of the output context of session c
CurrentTime(c) ==
  now - ctxStart[c]

\* the state after the component has mounted (the mount effect has copied
\* the stored key into customApiKey)
Mounted ==
  /\ customApiKey = storedKey
  /\ isVoiceActive = FALSE
  /\ isVoiceConnecting = FALSE
  /\ voiceError = "null"
  /\ isBotSpeaking = FALSE
  /\ audioContextRef = 0
  /\ inputContextRef = 0
  /\ liveSessionRef = 0
  /\ nextStartTimeRef = 0
  /\ audioSourcesRef = {}
  /\ nsess = 0
  /\ pc = [s \in Sessions |-> "idle"]
  /\ apiKey = [s \in Sessions |-> ""]
  /\ stream = [s \in Sessions |-> "none"]
  /\ inputCtx = [s \in Sessions |-> "none"]
  /\ outputCtx = [s \in Sessions |-> "none"]
  /\ ctxStart = [s \in Sessions |-> 0]
  /\ processor = [s \in Sessions |-> FALSE]
  /\ now = 0
  /\ nmsg = 0
  /\ frag = [m \in MsgIds |-> NoFrag]
  /\ prev = NoPrev
  /\ stopped = {}
  /\ cut = FALSE
  /\ bumped = FALSE
  /\ flushed = {}
  /\ torn = [s \in Sessions |-> "no"]
  /\ sent = [s \in Sessions |-> 0]
  /\ prompted = {}
  /\ calls = <<>>
  /\ toolOut = <<>>
  /\ rtOut = [s \in Sessions |-> <<>>]
  /\ acked = [s \in Sessions |-> 0]

\* no tasks were saved by an earlier visit
NoSavedTasks ==
  /\ tasks = <<>>
  /\ tasksRef = <<>>
  /\ nextId = 1

Init ==
  /\ aistudio \in BOOLEAN
  /\ envKey \in {"", "env"}
  /\ storedKey \in {"", "key"}
  /\ limit = [sessions |-> LifeSessions, msgs |-> LifeMsgs,
              clock |-> LifeClock, chunks |-> LifeChunks, calls |-> 0,
              flush |-> TRUE]
  /\ NoSavedTasks
  /\ Mounted

InitPlay ==
  /\ aistudio = FALSE
  /\ envKey = ""
  /\ storedKey = "key"
  /\ limit = [sessions |-> 1, msgs |-> PlayMsgs, clock |-> PlayClock,
              chunks |-> 0, calls |-> 0, flush |-> FALSE]
  /\ NoSavedTasks
  /\ Mounted

\* ------------------------------------------------------- disconnectVoice
DisconnectVoice ==
  /\ liveSessionRef' = 0
  /\ inputCtx' = IF inputContextRef # 0
                   THEN [inputCtx EXCEPT ![inputContextRef] = "closed"]
                   ELSE inputCtx
  /\ inputContextRef' = 0
  /\ stopped' = stopped \cup audioSourcesRef
  /\ audioSourcesRef' = {}
  /\ isVoiceActive' = FALSE
  /\ isVoiceConnecting' = FALSE
  /\ isBotSpeaking' = FALSE
  /\ torn' = [s \in Sessions |->
                IF s \notin Live THEN torn[s]
                ELSE IF pc[s] = "open" THEN "open" ELSE "connecting"]

\* ---------------------------------------------------------- connectVoice
\* connectVoice from the envKey fallback (line 266) to the first await of
\* the try block; key is the apiKey so far, typed the answer to prompt()
ResolveKey(s, key, typed) ==
  LET k1 == IF key = "" /\ envKey # "" THEN envKey ELSE key
      ask == k1 = "" /\ ~aistudio
      st2 == IF ask /\ typed # "" THEN typed ELSE storedKey
      k2 == IF ask THEN st2 ELSE k1
  IN  /\ storedKey' = st2
      /\ customApiKey' = IF ask /\ typed # "" THEN typed ELSE customApiKey
      /\ prompted' = IF ask THEN prompted \cup {s} ELSE prompted
      /\ IF ask /\ k2 = ""
           THEN /\ voiceError' = "No API Key set."
                /\ pc' = [pc EXCEPT ![s] = "done"]
                /\ UNCHANGED <<isVoiceConnecting, apiKey>>
           ELSE /\ isVoiceConnecting' = TRUE
                /\ voiceError' = "null"
                /\ apiKey' = [apiKey EXCEPT ![s] = k2]
                /\ pc' = [pc EXCEPT ![s] = "mic"]

ConnectVoice(typed) ==
  LET s == nsess + 1
  IN  /\ nsess < limit.sessions
      /\ nsess' = s
      /\ IF aistudio
           THEN /\ pc' = [pc EXCEPT ![s] = "hasKey"]
                /\ apiKey' = [apiKey EXCEPT ![s] = customApiKey]
                /\ UNCHANGED <<storedKey, customApiKey, isVoiceConnecting,
                               voiceError, prompted>>
           ELSE ResolveKey(s, customApiKey, typed)
      /\ UNCHANGED <<aistudio, envKey, limit, isVoiceActive, isBotSpeaking,
                     audioContextRef, inputContextRef, liveSessionRef,
                     resVars, playVars, now, torn,
                     bridgeVars, sendVars>>

ToggleVoice ==
  IF isVoiceActive \/ isVoiceConnecting
    THEN /\ DisconnectVoice
         /\ UNCHANGED <<keyVars, voiceError, audioContextRef,
                        nextStartTimeRef, nsess, pc, apiKey, stream,
                        outputCtx, ctxStart, processor, sent, now, nmsg, frag,
                        prev, cut, bumped, flushed,
                        bridgeVars, sendVars, prompted>>
    ELSE \E typed \in {"", "key"} : ConnectVoice(typed)

HasKeyResolved(s, hasKey, typed) ==
  /\ pc[s] = "hasKey"
  /\ IF hasKey
       THEN ResolveKey(s, apiKey[s], typed)
       ELSE /\ pc' = [pc EXCEPT ![s] = "selectKey"]
            /\ UNCHANGED <<storedKey, customApiKey, isVoiceConnecting,
                           voiceError, apiKey, prompted>>
  /\ UNCHANGED <<aistudio, envKey, limit, isVoiceActive, isBotSpeaking,
                 audioContextRef, inputContextRef, liveSessionRef, nsess,
                 resVars, playVars, now, torn,
                 bridgeVars, sendVars>>

SelectKeyResolved(s, success, typed) ==
  /\ pc[s] = "selectKey"
  /\ IF success
       THEN ResolveKey(s, apiKey[s], typed)
       ELSE /\ voiceError' = "API Key required"
            /\ pc' = [pc EXCEPT ![s] = "done"]
            /\ UNCHANGED <<storedKey, customApiKey, isVoiceConnecting,
                           apiKey, prompted>>
  /\ UNCHANGED <<aistudio, envKey, limit, isVoiceActive, isBotSpeaking,
                 audioContextRef, inputContextRef, liveSessionRef, nsess,
                 resVars, playVars, now, torn,
                 bridgeVars, sendVars>>

\* the catch block of connectVoice
CatchInit(s) ==
  /\ voiceError' = "Could not start voice"
  /\ isVoiceConnecting' = FALSE
  /\ pc' = [pc EXCEPT ![s] = "failed"]

\* getUserMedia settles and the try block runs to its end or to a throw.
\* outcome: "denied" (getUserMedia rejects), "inputCtxFail" / "outputCtxFail"
\* (the AudioContext constructor throws), "ok".  new GoogleGenAI throws in a
\* browser when it is given an empty key.
MicResolved(s, outcome) ==
  /\ pc[s] = "mic"
  /\ stream' = IF outcome = "denied" THEN stream
               ELSE [stream EXCEPT ![s] = "live"]
  /\ inputCtx' = IF outcome \in {"outputCtxFail", "ok"}
                   THEN [inputCtx EXCEPT ![s] = "running"] ELSE inputCtx
  /\ inputContextRef' = IF outcome \in {"outputCtxFail", "ok"}
                          THEN s ELSE inputContextRef
  /\ outputCtx' = IF outcome = "ok"
                    THEN [outputCtx EXCEPT ![s] = "running"] ELSE outputCtx
  /\ ctxStart' = IF outcome = "ok"
                   THEN [ctxStart EXCEPT ![s] = now] ELSE ctxStart
  /\ audioContextRef' = IF outcome = "ok" THEN s ELSE audioContextRef
  /\ IF outcome = "ok" /\ apiKey[s] # ""
       THEN /\ liveSessionRef' = s
            /\ pc' = [pc EXCEPT ![s] = "handshake"]
            /\ UNCHANGED <<voiceError, isVoiceConnecting>>
       ELSE /\ CatchInit(s)
            /\ UNCHANGED liveSessionRef
  /\ UNCHANGED <<keyVars, isVoiceActive, isBotSpeaking, nsess, apiKey,
                 processor, sent, playVars, now, torn,
                 bridgeVars, sendVars, prompted>>

\* callbacks.onopen
OnOpen(s) ==
  /\ pc[s] = "handshake"
  /\ isVoiceConnecting' = FALSE
  /\ isVoiceActive' = TRUE
  /\ processor' = [processor EXCEPT ![s] = TRUE]
  /\ pc' = [pc EXCEPT ![s] = "open"]
  /\ UNCHANGED <<keyVars, voiceError, isBotSpeaking, audioContextRef,
                 inputContextRef, liveSessionRef, nsess, apiKey, stream,
                 inputCtx, outputCtx, ctxStart, sent, playVars, now, torn,
                 bridgeVars, sendVars, prompted>>

\* callbacks.onerror, while the handshake is in flight or after onopen
OnError(s) ==
  /\ pc[s] \in {"handshake", "open"}
  /\ voiceError' = "Connection failed"
  /\ DisconnectVoice
  /\ pc' = [pc EXCEPT ![s] = "errored"]
  /\ UNCHANGED <<keyVars, audioContextRef, nextStartTimeRef, nsess, apiKey,
                 stream, outputCtx, ctxStart, processor, sent, now, nmsg, frag,
                 prev, cut, bumped, flushed,
                 bridgeVars, sendVars, prompted>>

\* an onclose that reports the close as a failure
OnCloseAsError(s) ==
  /\ pc[s] \in {"handshake", "open", "errored"}
  /\ voiceError' = "Connection failed"
  /\ DisconnectVoice
  /\ pc' = [pc EXCEPT ![s] = "closed"]
  /\ UNCHANGED <<keyVars, audioContextRef, nextStartTimeRef, nsess, apiKey,
                 stream, outputCtx, ctxStart, processor, sent, now, nmsg,
                 frag, prev, cut, bumped, flushed,
                 bridgeVars, sendVars, prompted>>

\* callbacks.onclose: the peer closes the connection (also refusing the
\* handshake), or the socket closes after an error
OnClose(s) ==
  /\ pc[s] \in {"handshake", "open", "errored"}
  /\ DisconnectVoice
  /\ pc' = [pc EXCEPT ![s] = "closed"]
  /\ UNCHANGED <<keyVars, voiceError, audioContextRef, nextStartTimeRef,
                 nsess, apiKey, stream, outputCtx, ctxStart, processor, sent,
                 now,
                 nmsg, frag, prev, cut, bumped, flushed,
                 bridgeVars, sendVars, prompted>>

\* a send that puts the newest chunk in front of the ones still waiting
SendRealtimeInputFirst(wire, chunk) ==
  <<chunk>> \o wire

\* line 367: sessionPromise.then(session => session.sendRealtimeInput(...));
\* the callbacks of a promise run in the order they were registered, so the
\* chunk is handed to the session behind the chunks handed over before it
SendRealtimeInput(wire, chunk) ==
  Append(wire, chunk)

\* processor.onaudioprocess: one chunk captured and handed to
\* session.sendRealtimeInput
OnAudioProcess(s) ==
  /\ processor[s]
  /\ inputCtx[s] = "running"
  /\ sent[s] < limit.chunks
  /\ sent' = [sent EXCEPT ![s] = sent[s] + 1]
  /\ rtOut' = [rtOut EXCEPT ![s] = SendRealtimeInput(rtOut[s], sent[s] + 1)]
  /\ UNCHANGED acked
  /\ UNCHANGED <<keyVars, isVoiceActive, isVoiceConnecting, voiceError,
                 isBotSpeaking, audioContextRef, inputContextRef,
                 liveSessionRef, nsess, pc, apiKey, stream, inputCtx,
                 outputCtx, ctxStart, processor, playVars, now, torn,
                 bridgeVars, prompted>>

\* ------------------------------------------------------------- onmessage
\* a cursor that is set to the clock instead of raised to it
RaiseCursorAssign(cursor, t) ==
  t

\* line 379: the cursor is raised to ctx.currentTime when the message arrives
RaiseCursor(cursor, t) ==
  Max(cursor, t)

\* a cursor that is not advanced past the fragment just started
AdvanceCursorForgotten(cursor, d) ==
  cursor

\* line 393: nextStartTimeRef.current += buffer.duration
AdvanceCursor(cursor, d) ==
  cursor + d

\* decodeAudioData(base64ToBytes(audioData), ctx): the duration of the
\* decoded buffer in ticks, or a failure
DecodeAudioData(p) ==
  IF p = 0 THEN [ok |-> FALSE, duration |-> 0]
           ELSE [ok |-> TRUE, duration |-> p]

\* an interruption branch that stops the sources but keeps the cursor
InterruptKeepCursor(srcs, stp, cursor) ==
  [sources |-> {}, stopped |-> stp \cup srcs, cursor |-> cursor,
   speaking |-> FALSE]

\* lines 401-406: the interruption branch, applied to the sources, the
\* stopped sources and the cursor as the audio branch left them
Interrupt(srcs, stp, cursor) ==
  [sources |-> {}, stopped |-> stp \cup srcs, cursor |-> 0,
   speaking |-> FALSE]

\* onmessage for a message with inline audio data, up to the await of
\* decodeAudioData; intr is msg.serverContent.interrupted
OnMessageAudio(s, p, intr) ==
  LET m == nmsg + 1
      c == RaiseCursor(nextStartTimeRef, CurrentTime(audioContextRef))
  IN  /\ pc[s] = "open"
      /\ nmsg < limit.msgs
      /\ audioContextRef # 0
      /\ isBotSpeaking' = TRUE
      /\ nextStartTimeRef' = c
      /\ bumped' = (bumped \/ c > nextStartTimeRef)
      /\ nmsg' = m
      /\ frag' = [frag EXCEPT ![m] =
                    [NoFrag EXCEPT !.st = "decoding", !.pay = p,
                                   !.intr = intr, !.sess = s,
                                   !.ctx = audioContextRef]]
      /\ UNCHANGED <<keyVars, isVoiceActive, isVoiceConnecting, voiceError,
                     audioContextRef, inputContextRef, liveSessionRef,
                     audioSourcesRef, nsess, pc, apiKey, resVars, now, prev,
                     stopped, cut, torn,
                     bridgeVars, sendVars, prompted, flushed>>

\* onmessage for a message without audio data whose interrupted flag is set
OnMessageInterrupt(s) ==
  LET r == Interrupt(audioSourcesRef, stopped, nextStartTimeRef)
  IN  /\ pc[s] = "open"
      /\ audioSourcesRef' = r.sources
      /\ stopped' = r.stopped
      /\ nextStartTimeRef' = r.cursor
      /\ isBotSpeaking' = r.speaking
      /\ cut' = TRUE
      /\ bumped' = FALSE
      /\ flushed' = flushed \cup Pending(0)
      /\ UNCHANGED <<keyVars, isVoiceActive, isVoiceConnecting, voiceError,
                     audioContextRef, inputContextRef, liveSessionRef, nsess,
                     pc, apiKey, resVars, now, nmsg, frag, prev, torn,
                     bridgeVars, sendVars, prompted>>

\* decodeAudioData resolves: lines 383-394, then the interruption branch
DecodeOk(m) ==
  LET f == frag[m]
      d == DecodeAudioData(f.pay).duration
      c == AdvanceCursor(nextStartTimeRef, d)
      r == Interrupt(audioSourcesRef \cup {m}, stopped, c)
  IN  /\ f.st = "decoding"
      /\ DecodeAudioData(f.pay).ok
      /\ frag' = [frag EXCEPT ![m] =
                    [f EXCEPT !.st = "playing", !.start = nextStartTimeRef,
                              !.playAt = Max(nextStartTimeRef,
                                             CurrentTime(f.ctx))]]
      /\ prev' = [id |-> m, start |-> nextStartTimeRef, dur |-> d]
      /\ IF f.intr
           THEN /\ audioSourcesRef' = r.sources
                /\ stopped' = r.stopped
                /\ nextStartTimeRef' = r.cursor
                /\ isBotSpeaking' = r.speaking
                /\ cut' = TRUE
           ELSE /\ audioSourcesRef' = audioSourcesRef \cup {m}
                /\ nextStartTimeRef' = c
                /\ cut' = FALSE
                /\ UNCHANGED <<stopped, isBotSpeaking>>
      /\ bumped' = FALSE
      /\ flushed' = IF f.intr THEN (flushed \ {m}) \cup Pending(m)
                    ELSE flushed \ {m}
      /\ UNCHANGED <<keyVars, isVoiceActive, isVoiceConnecting, voiceError,
                     audioContextRef, inputContextRef, liveSessionRef, nsess,
                     pc, apiKey, resVars, now, nmsg, torn,
                     bridgeVars, sendVars, prompted>>

\* a catch block that flushes the scheduler when one fragment fails
DecodeFailFlush(m) ==
  LET f == frag[m]
      r == Interrupt(audioSourcesRef, stopped, nextStartTimeRef)
  IN  /\ f.st = "decoding"
      /\ ~DecodeAudioData(f.pay).ok
      /\ frag' = [frag EXCEPT ![m] = [NoFrag EXCEPT !.st = "failed"]]
      /\ audioSourcesRef' = r.sources
      /\ stopped' = r.stopped
      /\ nextStartTimeRef' = r.cursor
      /\ isBotSpeaking' = r.speaking
      /\ cut' = TRUE
      /\ bumped' = FALSE
      /\ flushed' = (flushed \ {m}) \cup Pending(m)
      /\ UNCHANGED <<keyVars, isVoiceActive, isVoiceConnecting, voiceError,
                     audioContextRef, inputContextRef, liveSessionRef, nsess,
                     pc, apiKey, resVars, now, nmsg, prev, torn,
                     bridgeVars, sendVars, prompted>>

\* decodeAudioData rejects: the catch at line 395, then the interruption
\* branch
DecodeFail(m) ==
  LET f == frag[m]
      r == Interrupt(audioSourcesRef, stopped, nextStartTimeRef)
  IN  /\ f.st = "decoding"
      /\ ~DecodeAudioData(f.pay).ok
      /\ frag' = [frag EXCEPT ![m] = [NoFrag EXCEPT !.st = "failed"]]
      /\ IF f.intr
           THEN /\ audioSourcesRef' = r.sources
                /\ stopped' = r.stopped
                /\ nextStartTimeRef' = r.cursor
                /\ isBotSpeaking' = r.speaking
                /\ cut' = TRUE
                /\ bumped' = FALSE
           ELSE UNCHANGED <<audioSourcesRef, stopped, nextStartTimeRef,
                               isBotSpeaking, cut, bumped>>
      /\ flushed' = IF f.intr THEN (flushed \ {m}) \cup Pending(m)
                    ELSE flushed \ {m}
      /\ UNCHANGED <<keyVars, isVoiceActive, isVoiceConnecting, voiceError,
                     audioContextRef, inputContextRef, liveSessionRef, nsess,
                     pc, apiKey, resVars, now, nmsg, prev, torn,
                     bridgeVars, sendVars, prompted>>

\* source.onended (lines 387-390): the buffer has played to its end, or
\* stop() was called on the source
OnEnded(m) ==
  LET f == frag[m]
  IN  /\ f.st = "playing"
      /\ \/ m \in stopped
         \/ CurrentTime(f.ctx) >= f.playAt + DecodeAudioData(f.pay).duration
      /\ audioSourcesRef' = audioSourcesRef \ {m}
      /\ isBotSpeaking' = IF audioSourcesRef \ {m} = {} THEN FALSE
                          ELSE isBotSpeaking
      /\ frag' = [frag EXCEPT ![m] = [NoFrag EXCEPT !.st = "ended"]]
      /\ stopped' = stopped \ {m}
      /\ UNCHANGED <<keyVars, isVoiceActive, isVoiceConnecting, voiceError,
                     audioContextRef, inputContextRef, liveSessionRef,
                     nextStartTimeRef, nsess, pc, apiKey, resVars, now, nmsg,
                     prev, cut, bumped, torn,
                     bridgeVars, sendVars, prompted, flushed>>

\* the audio clocks advance by one tick
Tick ==
  /\ now < limit.clock
  /\ \E s \in Sessions : outputCtx[s] = "running"
  /\ now' = now + 1
  /\ UNCHANGED <<keyVars, isVoiceActive, isVoiceConnecting, voiceError,
                 isBotSpeaking, audioContextRef, inputContextRef,
                 liveSessionRef, nsess, pc, apiKey, resVars, playVars, torn,
                 bridgeVars, sendVars, prompted>>

\* ------------------------------------------------------------ tool bridge
\* texts are sequences of characters; " " is white space
LowerChar(c) ==
  IF c = "A" THEN "a" ELSE IF c = "B" THEN "b" ELSE c

\* String.prototype.toLowerCase
ToLowerCase(t) ==
  [i \in 1..Len(t) |-> LowerChar(t[i])]

\* line 418: t.text.toLowerCase().includes(text.toLowerCase())
Includes(hay, needle) ==
  \E i \in 0..(Len(hay) - Len(needle)) :
    SubSeq(ToLowerCase(hay), i + 1, i + Len(needle)) = ToLowerCase(needle)

RECURSIVE TrimStart(_)
TrimStart(t) ==
  IF t # <<>> /\ Head(t) = " " THEN TrimStart(Tail(t)) ELSE t

RECURSIVE TrimEnd(_)
TrimEnd(t) ==
  IF t # <<>> /\ t[Len(t)] = " " THEN TrimEnd(SubSeq(t, 1, Len(t) - 1))
  ELSE t

\* String.prototype.trim
Trim(t) ==
  TrimEnd(TrimStart(t))

\* Array.prototype.join(', ') over the texts of the tasks
RECURSIVE Join(_)
Join(ts) ==
  IF ts = <<>> THEN <<>>
  ELSE IF Len(ts) = 1 THEN ts[1].text
  ELSE ts[1].text \o <<",", " ">> \o Join(Tail(ts))

\* lines 163-173: addTask puts a new task in front of the list, unless the
\* text is empty or white space
AddTask(ts, id, text) ==
  IF Trim(text) = <<>> THEN ts
  ELSE <<[id |-> id, text |-> text]>> \o ts

\* lines 181-184: deleteTask
DeleteTask(ts, id) ==
  SelectSeq(ts, LAMBDA t : t.id # id)

\* a clearAllTasks that leaves the list as it is
ClearAllTasksKept(ts) ==
  ts

\* lines 186-189: clearAllTasks
ClearAllTasks(ts) ==
  <<>>

\* Array.prototype.find with the predicate of line 418: the index of the
\* first task of ref whose text contains text, 0 when there is none
FindTask(ref, text) ==
  IF \E i \in 1..Len(ref) : Includes(ref[i].text, text)
    THEN CHOOSE i \in 1..Len(ref) :
           /\ Includes(ref[i].text, text)
           /\ \A j \in 1..(i - 1) : ~Includes(ref[j].text, text)
    ELSE 0

\* the text JavaScript prints for an argument that is not there
Undefined ==
  <<"undefined">>

\* the result strings of lines 411-431
Res(kind, text) ==
  [kind |-> kind, text |-> text]

\* a result that starts out empty instead of "ok"
DefaultResultUnset ==
  Res("", <<>>)

\* line 411: let result = "ok"
DefaultResult ==
  Res("ok", <<>>)

\* lines 410-441: the loop body for one entry fc, run on the bridge state
\* st = [tasks, nextId, out, threw]; ref is tasksRef.current, which no
\* statement of the loop changes.  text.trim() (line 164) and
\* text.toLowerCase() (line 418) throw a TypeError when text is undefined,
\* and the exception leaves the handler.
HandleCall(st, ref, fc) ==
  LET text == IF fc.has THEN fc.text ELSE Undefined
      hit == FindTask(ref, text)
      throws == \/ fc.name = "addTask" /\ ~fc.has
                \/ fc.name = "removeTask" /\ ~fc.has /\ ref # <<>>
      ts == IF fc.name = "addTask" THEN AddTask(st.tasks, st.nextId, text)
            ELSE IF fc.name = "removeTask" /\ hit # 0
                   THEN DeleteTask(st.tasks, ref[hit].id)
            ELSE IF fc.name = "clearAllTasks" THEN ClearAllTasks(st.tasks)
            ELSE st.tasks
      result == IF fc.name = "addTask" THEN Res("Added task: ", text)
                ELSE IF fc.name = "removeTask"
                  THEN IF hit # 0 THEN Res("Removed task: ", ref[hit].text)
                       ELSE Res("Could not find task matching ", text)
                ELSE IF fc.name = "getTasks"
                  THEN IF Join(ref) # <<>>
                         THEN Res("Your list has: ", Join(ref))
                         ELSE Res("Your list is empty.", <<>>)
                ELSE IF fc.name = "clearAllTasks"
                  THEN Res("All tasks cleared.", <<>>)
                ELSE DefaultResult
  IN  IF st.threw THEN st
      ELSE IF throws THEN [st EXCEPT !.threw = TRUE]
      ELSE [tasks |-> ts,
            nextId |-> IF ts # st.tasks /\ fc.name = "addTask"
                         THEN st.nextId + 1 ELSE st.nextId,
            out |-> Append(st.out, [id |-> fc.id, name |-> fc.name,
                                    result |-> result]),
            threw |-> FALSE]

\* line 410: for (const fc of msg.toolCall.functionCalls)
RECURSIVE RunBatch(_, _, _)
RunBatch(st, ref, batch) ==
  IF batch = <<>> THEN st
  ELSE RunBatch(HandleCall(st, ref, Head(batch)), ref, Tail(batch))

\* the bridge state a handler starts from
BridgeState ==
  [tasks |-> tasks, nextId |-> nextId, out |-> toolOut, threw |-> FALSE]

\* the names the peer can send: the four declared tools and one other
ToolNames ==
  {"addTask", "removeTask", "getTasks", "clearAllTasks", "renameTask"}

\* the text arguments the peer can send
TextArgs ==
  {<<>>, <<" ">>, <<"a">>, <<"A", "b">>}

\* the entries the peer can send: name and args; text is required by the
\* declaration of addTask and removeTask but the peer may leave it out
Entries ==
  {[name |-> n, has |-> FALSE, text |-> <<>>] : n \in ToolNames}
    \cup {[name |-> n, has |-> TRUE, text |-> t] :
            n \in {"addTask", "removeTask"}, t \in TextArgs}

\* lines 409-442 for the entries batch of msg.toolCall; the entries carry
\* the ids the peer gave them, here their arrival numbers
HandleToolCall(s, batch) ==
  LET n == Len(calls)
      b == [i \in 1..Len(batch) |->
              [id |-> n + i, name |-> batch[i].name, has |-> batch[i].has,
               text |-> batch[i].text]]
      r == RunBatch(BridgeState, tasksRef, b)
  IN  /\ pc[s] = "open"
      /\ batch # <<>>
      /\ n + Len(batch) <= limit.calls
      /\ calls' = calls \o b
      /\ tasks' = r.tasks
      /\ nextId' = r.nextId
      /\ toolOut' = r.out
      /\ UNCHANGED <<keyVars, isVoiceActive, isVoiceConnecting, voiceError,
                     isBotSpeaking, audioContextRef, inputContextRef,
                     liveSessionRef, nsess, pc, apiKey, resVars, playVars,
                     now, torn, tasksRef, sendVars, prompted>>

\* onmessage for a message with a toolCall
OnMessageToolCall(s) ==
  /\ pc[s] = "open"
  /\ \E n \in 1..(limit.calls - Len(calls)) :
       \E batch \in [1..n -> Entries] : HandleToolCall(s, batch)

\* the component renders again and the effect of lines 84-86 copies tasks
\* into tasksRef.current
Render ==
  /\ tasksRef # tasks
  /\ tasksRef' = tasks
  /\ UNCHANGED <<keyVars, isVoiceActive, isVoiceConnecting, voiceError,
                 isBotSpeaking, audioContextRef, inputContextRef,
                 liveSessionRef, nsess, pc, apiKey, resVars, playVars, now,
                 torn, tasks, nextId, calls, toolOut, sendVars, prompted>>

Next ==
  \/ ToggleVoice
  \/ \E s \in Sessions, b \in BOOLEAN, typed \in {"", "key"} :
       \/ HasKeyResolved(s, b, typed)
       \/ SelectKeyResolved(s, b, typed)
  \/ \E s \in Sessions,
        o \in {"denied", "inputCtxFail", "outputCtxFail", "ok"} :
       MicResolved(s, o)
  \/ \E s \in Sessions :
       \/ OnOpen(s)
       \/ OnError(s)
       \/ OnClose(s)
       \/ OnAudioProcess(s)
       \/ OnMessageInterrupt(s)
  \/ \E s \in Sessions, p \in Payloads, intr \in BOOLEAN :
       OnMessageAudio(s, p, intr)
  \/ \E m \in MsgIds :
       \/ DecodeOk(m)
       \/ DecodeFail(m)
       \/ OnEnded(m)
  \/ Tick

Spec ==
  Init /\ [][Next]_vars

\* the playback specification: the interruption flag comes in a message of
\* its own, as the peer sends it
NextPlay ==
  \/ ToggleVoice
  \/ \E s \in Sessions,
        o \in {"denied", "inputCtxFail", "outputCtxFail", "ok"} :
       MicResolved(s, o)
  \/ \E s \in Sessions :
       \/ OnOpen(s)
       \/ OnError(s)
       \/ OnClose(s)
       \/ OnMessageInterrupt(s)
  \/ \E s \in Sessions, p \in Payloads : OnMessageAudio(s, p, FALSE)
  \/ \E m \in MsgIds :
       \/ DecodeOk(m)
       \/ DecodeFail(m)
       \/ OnEnded(m)
  \/ Tick

SpecPlay ==
  InitPlay /\ [][NextPlay]_vars

\* the network finishes sending the oldest wire message of session s that
\* is still in flight
SendCompleted(s) ==
  /\ acked[s] < Len(rtOut[s])
  /\ acked' = [acked EXCEPT ![s] = acked[s] + 1]
  /\ UNCHANGED <<keyVars, isVoiceActive, isVoiceConnecting, voiceError,
                 isBotSpeaking, audioContextRef, inputContextRef,
                 liveSessionRef, nsess, pc, apiKey, resVars, playVars, now,
                 torn, bridgeVars, rtOut, prompted>>

\* the capture specification
InitCapture ==
  /\ aistudio = FALSE
  /\ envKey = ""
  /\ storedKey = "key"
  /\ limit = [sessions |-> LifeSessions, msgs |-> 0, clock |-> 0,
              chunks |-> CapChunks, calls |-> 0, flush |-> FALSE]
  /\ NoSavedTasks
  /\ Mounted

NextCapture ==
  \/ ToggleVoice
  \/ \E s \in Sessions,
        o \in {"denied", "inputCtxFail", "outputCtxFail", "ok"} :
       MicResolved(s, o)
  \/ \E s \in Sessions :
       \/ OnOpen(s)
       \/ OnError(s)
       \/ OnClose(s)
       \/ OnAudioProcess(s)
       \/ SendCompleted(s)

SpecCapture ==
  InitCapture /\ [][NextCapture]_vars

\* the task lists the mount effect of lines 89-98 can find saved
SavedLists ==
  {<<>>,
   <<[id |-> 1, text |-> <<"A", "b">>]>>,
   <<[id |-> 1, text |-> <<"b">>], [id |-> 2, text |-> <<"A", "b">>]>>}

\* the tool-bridge specification: a stored key, one session, the saved
\* tasks loaded and rendered
InitBridge ==
  /\ aistudio = FALSE
  /\ envKey = ""
  /\ storedKey = "key"
  /\ limit = [sessions |-> 1, msgs |-> 0, clock |-> 0, chunks |-> 0,
              calls |-> MaxCalls, flush |-> FALSE]
  /\ tasks \in SavedLists
  /\ tasksRef = tasks
  /\ nextId = 3
  /\ Mounted

NextBridge ==
  \/ ToggleVoice
  \/ \E s \in Sessions,
        o \in {"denied", "inputCtxFail", "outputCtxFail", "ok"} :
       MicResolved(s, o)
  \/ \E s \in Sessions :
       \/ OnOpen(s)
       \/ OnError(s)
       \/ OnClose(s)
  \/ \E s \in Sessions : OnMessageToolCall(s)
  \/ Render

SpecBridge ==
  InitBridge /\ [][NextBridge]_vars
\* ------------------------------------------------------------ properties
\* source.start is called for message m in this step
Started(m) ==
  frag[m].st = "decoding" /\ frag'[m].st = "playing"

\* the decode of message m fails in this step
Failed(m) ==
  frag[m].st = "decoding" /\ frag'[m].st = "failed"

\* an audio message is received in this step
Received ==
  nmsg' = nmsg + 1

\* the interruption branch of onmessage runs in this step
Interrupted ==
  \/ \E s \in Sessions : OnMessageInterrupt(s)
  \/ \E m \in MsgIds :
       frag[m].st = "decoding" /\ frag[m].intr /\ frag'[m].st # "decoding"

Duration(m) ==
  DecodeAudioData(frag[m].pay).duration

C2_InterruptFlushes ==
  [][Interrupted =>
       /\ audioSourcesRef' = {}
       /\ nextStartTimeRef' = 0
       /\ audioSourcesRef \subseteq stopped'
       /\ isBotSpeaking' = FALSE]_vars

\* an interruption has stopped two sources of a session that was never
\* disconnected
C2_Witness ==
  /\ cut
  /\ \A s \in Sessions : torn[s] = "no"
  /\ Cardinality(stopped) >= 2
  /\ audioSourcesRef = {}
  /\ nextStartTimeRef = 0

\* C3: the speaking flag is true exactly when ActiveSources is non-empty.
C3_SpeakingIffActive ==
  isBotSpeaking <=> (audioSourcesRef # {})

\* C4 as stated: the cursor decreases only when an interruption resets it,
\* and in every state it is at least the output clock's current time.
C4_CursorAheadOfClock ==
  [][/\ nextStartTimeRef' < nextStartTimeRef => Interrupted
     /\ audioContextRef' # 0
          => nextStartTimeRef' >= now' - ctxStart'[audioContextRef']]_vars

\* C4 as amended: the cursor decreases only when an interruption resets it
\* (to 0), and it is at least the output clock's current time right after an
\* audio message has been received.
C4_CursorRaisedOnReceipt ==
  [][/\ nextStartTimeRef' < nextStartTimeRef
          => (Interrupted /\ nextStartTimeRef' = 0)
     /\ Received
          => nextStartTimeRef' >= now' - ctxStart'[audioContextRef']]_vars

\* a message has arrived while the clock was ahead of the end of the last
\* fragment, and the cursor has been raised to the clock
C4_Witness ==
  /\ bumped
  /\ prev.id # 0
  /\ ~cut
  /\ \E m \in MsgIds : frag[m].st = "decoding"
  /\ nextStartTimeRef = CurrentTime(audioContextRef)
  /\ nextStartTimeRef > prev.start + prev.dur
\* C5: at most one session is connecting or open, and at most one capture
\* pipeline runs.
C5_OneSessionAtATime ==
  /\ Cardinality(Live) <= 1
  /\ Cardinality({s \in Sessions :
                    processor[s] /\ inputCtx[s] = "running"}) <= 1

\* C6: a session that disconnectVoice has torn down is not opened
\* afterwards by its onopen.
C6_NoOpenAfterDisconnect ==
  [][\A s \in Sessions :
       (torn[s] # "no" /\ pc[s] # "open") => pc'[s] # "open"]_vars

\* C7: for a session that was open and has been torn down (disconnectVoice,
\* remote close or error) no inbound fragment is scheduled into
\* ActiveSources and no captured chunk is sent.
C7_ClosedSessionIsQuiet ==
  [][/\ \A m \in MsgIds : Started(m) => torn[frag[m].sess] # "open"
     /\ \A s \in Sessions : torn[s] = "open" => sent'[s] = sent[s]]_vars

\* C8: a failure while connecting (getUserMedia refused, an AudioContext
\* that cannot be made, a handshake that ends in onerror or in a close)
\* leaves the session neither connecting nor active, an error reason set,
\* and the microphone stream and both audio contexts of the attempt
\* released.
C8_FailedConnectReleasesAll ==
  [][\A s \in Sessions :
       (pc[s] \in {"mic", "handshake"}
          /\ pc'[s] \in {"failed", "errored", "closed"})
       => /\ ~isVoiceConnecting'
          /\ ~isVoiceActive'
          /\ voiceError' # "null"
          /\ stream'[s] # "live"
          /\ inputCtx'[s] # "running"
          /\ outputCtx'[s] # "running"]_vars

\* what disconnectVoice leaves behind
TornDown ==
  /\ liveSessionRef' = 0
  /\ inputContextRef' = 0
  /\ inputContextRef # 0 => inputCtx'[inputContextRef] = "closed"
  /\ audioSourcesRef' = {}
  /\ audioSourcesRef \subseteq stopped'
  /\ ~isVoiceActive'
  /\ ~isVoiceConnecting'
  /\ ~isBotSpeaking'
  /\ nextStartTimeRef' = nextStartTimeRef

\* C9: a remote close of an open session runs the teardown of a user
\* disconnect and leaves the error reason as it was; a remote error of an
\* open session sets the error reason and runs the same teardown.
C9_CloseIsNotAnError ==
  [][/\ \A s \in Sessions :
          (pc[s] = "open" /\ pc'[s] = "closed")
            => (TornDown /\ voiceError' = voiceError)
     /\ \A s \in Sessions :
          (pc[s] = "open" /\ pc'[s] = "errored")
            => (TornDown /\ voiceError' = "Connection failed")
     /\ ((isVoiceActive \/ isVoiceConnecting) /\ ToggleVoice)
            => (TornDown /\ voiceError' = voiceError)]_vars

\* the peer has closed an open session while a fragment was in
\* ActiveSources, and no error reason is shown
C9_Witness ==
  \E s \in Sessions :
    /\ pc[s] = "closed"
    /\ voiceError = "null"
    /\ stopped # {}
    /\ audioSourcesRef = {}
    /\ ~isVoiceActive
    /\ ~isBotSpeaking

Batch ==
  SubSeq(calls', Len(calls) + 1, Len(calls'))

\* the bridge state in which the loop reaches entry i of the batch
Before(i) ==
  RunBatch(BridgeState, tasksRef, SubSeq(Batch, 1, i - 1))

\* the bridge state in which the loop leaves entry i of the batch
After(i) ==
  HandleCall(Before(i), tasksRef, Batch[i])

\* the loop comes to entry i of the batch: no entry before it has thrown
Reached(i) ==
  ~Before(i).threw

\* the responses in out that carry the id of entry fc
ResponsesTo(out, fc) ==
  {k \in DOMAIN out : out[k].id = fc.id}

\* C11: every tool-call entry received has exactly one response, with its
\* id and name, and the responses are in the order the entries arrived in,
\* within a batch and across batches.
C11_ResponsesInArrivalOrder ==
  [k \in DOMAIN toolOut |-> <<toolOut[k].id, toolOut[k].name>>]
    = [k \in DOMAIN calls |-> <<calls[k].id, calls[k].name>>]

C13_MissingTextRejected ==
  [][\A i \in 1..Len(Batch) :
       (Batch[i].name \in {"addTask", "removeTask"} /\ ~Batch[i].has)
       => /\ \E k \in ResponsesTo(toolOut', Batch[i]) :
               toolOut'[k].result.kind
                 \notin {"Added task: ", "Removed task: "}
          /\ \A j \in i..Len(Batch) :
               ResponsesTo(toolOut', Batch[j]) # {}]_vars

\* C14: a removeTask entry with a text deletes the first task of the list
\* whose text contains it, ignoring case, and reports that task's text; when
\* no task of the list matches, the list stays as it is and the result says
\* that nothing was found.
C14_RemovesFirstMatch ==
  [][\A i \in 1..Len(Batch) :
       (Batch[i].name = "removeTask" /\ Batch[i].has /\ ~Before(i).threw)
       => LET cur == Before(i).tasks
              hit == FindTask(cur, Batch[i].text)
              res == After(i).out[Len(After(i).out)].result
          IN  IF hit # 0
                THEN /\ After(i).tasks
                          = SubSeq(cur, 1, hit - 1)
                              \o SubSeq(cur, hit + 1, Len(cur))
                     /\ res = [kind |-> "Removed task: ",
                               text |-> cur[hit].text]
                ELSE /\ After(i).tasks = cur
                     /\ res = [kind |-> "Could not find task matching ",
                               text |-> Batch[i].text]]_vars

\* C15: whenever an addTask entry is answered with the confirmation for its
\* text, the list has grown by exactly one task, which has that text.
C15_AddedMeansCreated ==
  [][\A i \in 1..Len(Batch) :
       (/\ Batch[i].name = "addTask"
        /\ ~Before(i).threw
        /\ ~After(i).threw
        /\ After(i).out[Len(After(i).out)].result.kind = "Added task: ")
       => /\ Len(After(i).tasks) = Len(Before(i).tasks) + 1
          /\ \E k \in 1..Len(After(i).tasks) :
               /\ After(i).tasks[k].text = Batch[i].text
               /\ \A j \in 1..Len(Before(i).tasks) :
                    Before(i).tasks[j].id # After(i).tasks[k].id]_vars

\* C19: when clearAllTasks is invoked for an entry, the list is empty
\* afterwards, whether it held tasks or not, and the response carries the
\* fixed confirmation; a batch that ends with the entry leaves the task list
\* empty.
C19_ClearAllEmptiesList ==
  [][\A i \in 1..Len(Batch) :
       (Batch[i].name = "clearAllTasks" /\ Reached(i))
       => /\ After(i).tasks = <<>>
          /\ ~After(i).threw
          /\ i = Len(Batch) => tasks' = <<>>
          /\ Cardinality(ResponsesTo(toolOut', Batch[i])) = 1
          /\ \A k \in ResponsesTo(toolOut', Batch[i]) :
               toolOut'[k].result
                 = [kind |-> "All tasks cleared.", text |-> <<>>]]_vars

\* clearAllTasks has been answered twice, the second time on a list the
\* first had already emptied
C19_Witness ==
  /\ Len(calls) = 2
  /\ calls[1].name = "clearAllTasks"
  /\ calls[2].name = "clearAllTasks"
  /\ tasks = <<>>
  /\ tasksRef # <<>>
  /\ Len(toolOut) = 2
  /\ \A k \in 1..2 :
       toolOut[k].result = [kind |-> "All tasks cleared.", text |-> <<>>]

\* ------------------------------------------------ key resolution properties
\* invocation s of connectVoice enters Connecting in this step (line 285)
EntersConnecting(s) ==
  pc[s] \in {"idle", "hasKey", "selectKey"} /\ pc'[s] = "mic"

\* invocation s of connectVoice returns in this step without connecting
GivesUp(s) ==
  pc[s] \in {"idle", "hasKey", "selectKey"} /\ pc'[s] = "done"

\* C16: the key connectVoice connects with is the first available of: the
\* key selected through the key-selection capability (which that capability
\* publishes as the environment key), the stored key, the environment key;
\* with a stored key and no capability it is the stored key, and the user is
\* not prompted.
C16_FirstAvailableWins ==
  [][\A s \in Sessions :
       EntersConnecting(s) =>
         /\ apiKey'[s] = IF aistudio /\ envKey # "" THEN envKey
                         ELSE IF storedKey' # "" THEN storedKey'
                         ELSE envKey
         /\ (~aistudio /\ storedKey # "")
              => (apiKey'[s] = storedKey /\ s \notin prompted')]_vars

\* C17: with or without the key-selection capability, connectVoice never
\* enters Connecting, takes the microphone or opens a session with an empty
\* key; when it gives up it has set an error reason and, there being no
\* capability to ask, has prompted for a key; a key typed at the prompt is
\* stored and is the key used.
C17_NoConnectWithoutKey ==
  [][\A s \in Sessions :
       /\ EntersConnecting(s) => apiKey'[s] # ""
       /\ (stream[s] = "none" /\ stream'[s] = "live") => apiKey[s] # ""
       /\ pc'[s] = "handshake" => apiKey'[s] # ""
       /\ GivesUp(s)
            => /\ voiceError' # "null"
               /\ ~isVoiceConnecting'
               /\ ~aistudio => s \in prompted'
       /\ (EntersConnecting(s) /\ s \in prompted' /\ s \notin prompted)
            => (storedKey' = apiKey'[s] /\ customApiKey' = apiKey'[s])]_vars

\* ------------------------------------------------------ capture properties
\* C18: every captured chunk is handed to sendRealtimeInput exactly once,
\* the chunks are handed over in capture order, and the capture callback
\* runs whether or not the sends before it have completed.
C18_EveryChunkSentInOrder ==
  \A s \in Sessions :
    /\ rtOut[s] = [k \in 1..sent[s] |-> k]
    /\ acked[s] <= Len(rtOut[s])
    /\ (processor[s] /\ inputCtx[s] = "running" /\ sent[s] < limit.chunks)
         => ENABLED OnAudioProcess(s)

\* two chunks have been captured and handed over while no send had
\* completed
C18_Witness ==
  \E s \in Sessions :
    /\ sent[s] = 2
    /\ rtOut[s] = <<1, 2>>
    /\ acked[s] = 0
    /\ pc[s] = "open"

\* C20: of two fragments in ActiveSources the one whose message arrived
\* first has the earlier start time, whichever decode completed first.
C20_StartedInArrivalOrder ==
  \A a, b \in audioSourcesRef :
    a < b => frag[a].start < frag[b].start

\* C21: a fragment whose message was received before an interruption is
\* not put into ActiveSources once that interruption has been handled, also
\* when its decode was still pending while the interruption ran.
C21_FlushedNeverStarts ==
  [][\A m \in MsgIds :
       (m \in flushed /\ frag[m].st = "decoding")
         => m \notin audioSourcesRef']_vars

\* C22: a teardown (the user's disconnect, a remote close or a remote error
\* of an open session) leaves the scheduler as an interruption does:
\* ActiveSources is empty and the ScheduleCursor is back at 0, so the next
\* session's first fragment is scheduled from that session's own clock.
C22_TeardownResetsScheduler ==
  [][(\/ (isVoiceActive \/ isVoiceConnecting) /\ ToggleVoice
      \/ \E s \in Sessions :
           pc[s] = "open" /\ pc'[s] \in {"closed", "errored"})
       => (audioSourcesRef' = {} /\ nextStartTimeRef' = 0)]_vars

\* C23: getTasks and removeTask read the task list as every earlier entry
\* of this batch and of the batches before it left it: getTasks lists
\* exactly the tasks there are, and removeTask reports a removal exactly
\* when one of those tasks matches.
C23_BridgeReadsCurrentList ==
  [][\A i \in 1..Len(Batch) :
       LET cur == Before(i).tasks
           res == After(i).out[Len(After(i).out)].result
       IN  /\ (Batch[i].name = "getTasks" /\ Reached(i))
               => res = IF Join(cur) # <<>>
                          THEN Res("Your list has: ", Join(cur))
                          ELSE Res("Your list is empty.", <<>>)
           /\ (Batch[i].name = "removeTask" /\ Batch[i].has /\ Reached(i))
               => (res.kind = "Removed task: "
                     <=> FindTask(cur, Batch[i].text) # 0)]_vars

\* C24: speaking ends.  Once every audio message received has run its
\* course (its decode has failed, or its fragment has ended by playing out
\* or by a force-stop) and none is arriving, ActiveSources is empty and the
\* speaking flag is false, whatever decodes, failures and interruptions
\* came before.
C24_SpeakingEnds ==
  (/\ nmsg > 0
   /\ \A m \in MsgIds : frag[m].st \notin {"decoding", "playing"})
    => (audioSourcesRef = {} /\ ~isBotSpeaking)
====
